---- MODULE Spec2Model ----
(***************************************************************************)
(* Boto3Extended: batch wrappers over S3, Bedrock and Rekognition.         *)
(*                                                                         *)
(* Every batch entry point (Bucket.uploadFiles, Bucket.downloadFiles,      *)
(* Bucket.deleteFiles, deleteBuckets, BedrockModel.invoke,                 *)
(* Rekognition.predict) hands a list of work items and a per-item function *)
(* to process_map.  The per-item functions run concurrently, one worker    *)
(* per item; the model interleaves their provider calls, one provider      *)
(* call per step.  Utils.formatXML and Utils.splitList are pure functions, *)
(* applied to inputs drawn in the initial state.                           *)
(***************************************************************************)
EXTENDS Integers, Sequences, FiniteSets, TLC

VARIABLES
    mode,           \* which entry point this behaviour exercises
    localpaths,     \* uploadFiles / downloadFiles argument
    s3paths,        \* uploadFiles / downloadFiles / deleteFiles / predict argument
    auto_empty,     \* deleteBuckets argument
    overrides,      \* the call_conf argument of invoke / single_invoke
    round,          \* number of calls of the entry point made so far
    items,          \* the work items handed to process_map
    status,         \* "idle", "running", "returned", "raised"
    out,            \* the list process_map returned to the caller
    prev,           \* ret of the first uploadFiles / downloadFiles call
    objects0,       \* objects when the current call started
    pc,             \* pc[i]: position of the worker of item i
    ret,            \* ret[i]: <<v>> once the worker of item i returned v
    err,            \* err[i]: last error code the worker of item i met
    acted,          \* acted[i]: transfer / delete requests item i issued
    order,          \* item indices in the order their workers completed
    loc,            \* loc[i]: the locals of deleteBucket for item i
    exists,         \* exists[b]: bucket b exists
    objects,        \* objects[b]: keys stored in bucket b
    files,          \* local paths that exist on disk
    denied,         \* keys whose get_object fails with AccessDenied
    locked,         \* keys delete_objects reports under 'Errors'
    default_call_conf, \* the dict self.default_call_conf refers to
    call_conf,      \* the dict self.call_conf refers to, by name
    sent_conf,      \* the configuration handed to _bedrock_call
    filename,       \* formatXML argument
    formatted,      \* <<formatXML(filename)>> once applied
    some_list,      \* splitList argument
    lenght,         \* splitList argument
    chunks          \* <<the chunks of splitList>> once applied

args == <<mode, localpaths, s3paths, auto_empty, overrides>>
batch == <<round, items, status, out, prev, objects0>>
workers == <<pc, ret, err, acted, order, loc>>
world == <<exists, objects, files>>
faults == <<denied, locked>>
bedrock == <<default_call_conf, call_conf, sent_conf>>
utils == <<filename, formatted, some_list, lenght, chunks>>

vars == <<args, batch, workers, world, faults, bedrock, utils>>

-----------------------------------------------------------------------------
(* Bounds of the model.                                                    *)

\* longest argument list of uploadFiles, downloadFiles, deleteBuckets,
\* invoke and predict
MaxItems == 2
\* successive invocations of one BedrockModel
MaxCalls == 2
\* longest file name given to formatXML
MaxNameLen == 2
\* longest list given to splitList and deleteFiles
MaxListLen == 4
\* largest chunk length given to splitList
MaxChunk == 3
\* keys per delete_objects request and per list_objects_v2 page; the
\* provider's limit of 1000 scaled to the size of the model
BatchLimit == 2

-----------------------------------------------------------------------------
(* Values.                                                                 *)

\* A key, a file name or a prompt is a sequence of characters.
KeyA == <<"a">>
KeyB == <<"b">>
KeyC == <<"c">>
KeyAmp == <<"&">>
TransferKeys == {KeyA, KeyB}
\* the keys a bucket may store when a deletion starts
StoredKeys == {KeyAmp, KeyA, KeyB, KeyC}
\* the keys deleteFiles is asked to delete
DeleteKeys == {KeyAmp, KeyA, KeyB}
\* the order in which list_objects_v2 lists keys
KeyOrder == <<KeyAmp, KeyA, KeyB, KeyC>>
LocalX == <<"x">>
LocalY == <<"y">>
Locals == {LocalX, LocalY}
BucketNames == {"b1", "b2"}
\* Bucket.bucket_name of the Bucket / Rekognition instance
bucket_name == "b1"

SeqsUpTo(S, n) == UNION {[1..k -> S] : k \in 0..n}

Min(a, b) == IF a < b THEN a ELSE b

RECURSIVE Sum(_)
Sum(s) == IF s = <<>> THEN 0 ELSE Head(s) + Sum(Tail(s))

RECURSIVE Concat(_)
Concat(ss) == IF ss = <<>> THEN <<>> ELSE Head(ss) \o Concat(Tail(ss))

Elems(f) == {f[i] : i \in DOMAIN f}

\* list(zip(localpaths, s3paths)): pairs up to the shorter list
zip(l, s) == [i \in 1..Min(Len(l), Len(s)) |-> <<l[i], s[i]>>]

-----------------------------------------------------------------------------
(* Utils.py                                                                *)

\* XML_translator: [source_char, target_char] pairs, in the order of the list
XML_translator ==
    << <<"'",  <<"&", "a", "p", "o", "s", ";">> >>,
       <<"\"", <<"&", "q", "u", "o", "t", ";">> >>,
       <<"&",  <<"&", "a", "m", "p", ";">> >>,
       <<"<",  <<"&", "l", "t", ";">> >>,
       <<">",  <<"&", "g", "t", ";">> >>,
       <<"\r", <<"&", "#", "1", "3", ";">> >>,
       <<"\n", <<"&", "#", "1", "0", ";">> >> >>

\* the characters file names are drawn from
Alphabet == {"'", "\"", "&", "<", ">", "\r", "\n", "a", ";"}

\* str.replace(source_char, target_char), source_char one character long
RECURSIVE replace(_, _, _)
replace(s, source_char, target_char) ==
    IF s = <<>> THEN <<>>
    ELSE (IF Head(s) = source_char THEN target_char ELSE <<Head(s)>>)
         \o replace(Tail(s), source_char, target_char)

\* the for loop of formatXML from the k-th pair on
RECURSIVE formatXMLFrom(_, _)
formatXMLFrom(name, k) ==
    IF k > Len(XML_translator) THEN name
    ELSE formatXMLFrom(replace(name, XML_translator[k][1], XML_translator[k][2]),
                       k + 1)

formatXML(name) == formatXMLFrom(name, 1)

\* range(start, stop, step) as a list
RECURSIVE range(_, _, _)
range(start, stop, step) ==
    IF start >= stop THEN <<>>
    ELSE <<start>> \o range(start + step, stop, step)

\* the slice l[i:j] of a list, positions counted from 0
slice(l, i, j) == SubSeq(l, i + 1, Min(j, Len(l)))

\* slices one position short
splitListShort(l, n) ==
    LET starts == range(0, Len(l), n)
    IN  [k \in 1..Len(starts) |-> slice(l, starts[k], starts[k] + n - 1)]

\* (some_list[i:i + lenght] for i in range(0, len(some_list), lenght))
splitList(l, n) ==
    LET starts == range(0, Len(l), n)
    IN  [k \in 1..Len(starts) |-> slice(l, starts[k], starts[k] + n)]

\* formatXML applied to the file name drawn in the initial state
ApplyFormatXML ==
    /\ mode = "formatXML" /\ formatted = <<>>
    /\ formatted' = <<formatXML(filename)>>
    /\ UNCHANGED <<args, batch, workers, world, faults, bedrock>>
    /\ UNCHANGED <<filename, some_list, lenght, chunks>>

\* splitList applied to the list and length drawn in the initial state
ApplySplitList ==
    /\ mode = "splitList" /\ chunks = <<>>
    /\ chunks' = <<splitList(some_list, lenght)>>
    /\ UNCHANGED <<args, batch, workers, world, faults, bedrock>>
    /\ UNCHANGED <<filename, formatted, some_list, lenght>>

-----------------------------------------------------------------------------
(* process_map(fn, items, chunksize= 1): one task per item, results        *)
(* listed by item index whatever the completion order.                     *)

\* results listed in completion order
process_map_unordered(rets, completed) ==
    [k \in 1..Len(completed) |-> rets[completed[k]][1]]

process_map(rets, completed) ==
    [i \in 1..Len(rets) |-> rets[i][1]]

Finished == status \in {"returned", "raised"}

\* locals of deleteBucket: n_deleted, n_errors, and the paginator's
\* position, current page and IsTruncated flag
NoLocals == [n_deleted |-> 0, n_errors |-> 0, cursor |-> 0, page |-> <<>>,
             truncated |-> FALSE]

\* the workers when process_map is entered with the work items its
StartBatch(its) ==
    /\ items' = its
    /\ status' = "running"
    /\ pc' = [i \in 1..Len(its) |-> "start"]
    /\ ret' = [i \in 1..Len(its) |-> <<>>]
    /\ err' = [i \in 1..Len(its) |-> "none"]
    /\ acted' = [i \in 1..Len(its) |-> 0]
    /\ loc' = [i \in 1..Len(its) |-> NoLocals]
    /\ order' = <<>>
    /\ out' = <<>>
    /\ round' = round + 1
    /\ objects0' = objects

\* the worker of item i returns v
Return(i, v) ==
    /\ pc' = [pc EXCEPT ![i] = "done"]
    /\ ret' = [ret EXCEPT ![i] = <<v>>]
    /\ order' = Append(order, i)

\* the worker of item i raises e
Raise(i, e) ==
    /\ pc' = [pc EXCEPT ![i] = "raised"]
    /\ err' = [err EXCEPT ![i] = e]
    /\ UNCHANGED <<ret, order>>

Goto(i, label) ==
    /\ pc' = [pc EXCEPT ![i] = label]
    /\ UNCHANGED <<ret, order>>

Worker(i) == status = "running" /\ i \in 1..Len(items)

\* process_map returns the list of results to the entry point
ProcessMapReturn ==
    /\ status = "running"
    /\ \A i \in 1..Len(items) : pc[i] = "done"
    /\ status' = "returned"
    /\ out' = process_map(ret, order)
    /\ UNCHANGED <<round, items, prev, objects0>>
    /\ UNCHANGED <<args, workers, world, faults, bedrock, utils>>

\* a worker's exception leaves process_map and the entry point; tasks not
\* yet started are cancelled, running ones are waited for
ProcessMapRaise ==
    /\ status = "running"
    /\ \E i \in 1..Len(items) : pc[i] = "raised"
    /\ \A i \in 1..Len(items) : pc[i] \in {"start", "done", "raised"}
    /\ status' = "raised"
    /\ out' = <<>>
    /\ UNCHANGED <<round, items, prev, objects0>>
    /\ UNCHANGED <<args, workers, world, faults, bedrock, utils>>

-----------------------------------------------------------------------------
(* S3.py: _uploadToBucket, Bucket.uploadFiles                              *)

\* the probe with every ClientError taken for a missing key
uploadProbeAnyError(i) ==
    /\ Worker(i) /\ mode = "upload" /\ pc[i] = "start"
    /\ LET s3path == items[i][2] IN
         IF s3path \in denied
           THEN Goto(i, "transfer") /\ err' = [err EXCEPT ![i] = "AccessDenied"]
           ELSE IF s3path \in objects[bucket_name]
                  THEN Return(i, 0) /\ err' = err
                  ELSE Goto(i, "transfer") /\ err' = [err EXCEPT ![i] = "NoSuchKey"]
    /\ UNCHANGED <<acted, loc>>
    /\ UNCHANGED <<args, batch, world, faults, bedrock, utils>>

\* try: s3client.get_object(Bucket= bucket_name, Key= s3path), the
\* existence probe, and the branches taken on its outcome
uploadProbe(i) ==
    /\ Worker(i) /\ mode = "upload" /\ pc[i] = "start"
    /\ LET s3path == items[i][2] IN
         IF s3path \in denied
           THEN Raise(i, "AccessDenied")
           ELSE IF s3path \in objects[bucket_name]
                  THEN Return(i, 0) /\ err' = err
                  ELSE Goto(i, "transfer") /\ err' = [err EXCEPT ![i] = "NoSuchKey"]
    /\ UNCHANGED <<acted, loc>>
    /\ UNCHANGED <<args, batch, world, faults, bedrock, utils>>

\* the upload made only if the key is still absent when it is made
uploadTransferGuarded(i) ==
    /\ Worker(i) /\ mode = "upload" /\ pc[i] = "transfer"
    /\ LET localpath == items[i][1]
           s3path == items[i][2] IN
         IF s3path \in objects[bucket_name]
           THEN Return(i, 0) /\ UNCHANGED <<objects, acted, err>>
           ELSE IF localpath \in files
                  THEN /\ objects' = [objects EXCEPT ![bucket_name] = @ \cup {s3path}]
                       /\ acted' = [acted EXCEPT ![i] = @ + 1]
                       /\ Return(i, 1) /\ err' = err
                  ELSE /\ Raise(i, "FileNotFound")
                       /\ UNCHANGED <<objects, acted>>
    /\ UNCHANGED <<loc, exists, files>>
    /\ UNCHANGED <<args, batch, faults, bedrock, utils>>

\* code 'NoSuchKey': s3client.upload_file(localpath, bucket_name, s3path);
\* return 1.  upload_file raises when the local file is missing.
uploadTransfer(i) ==
    /\ Worker(i) /\ mode = "upload" /\ pc[i] = "transfer"
    /\ LET localpath == items[i][1]
           s3path == items[i][2] IN
         IF localpath \in files
           THEN /\ objects' = [objects EXCEPT ![bucket_name] = @ \cup {s3path}]
                /\ acted' = [acted EXCEPT ![i] = @ + 1]
                /\ Return(i, 1) /\ err' = err
           ELSE /\ Raise(i, "FileNotFound")
                /\ UNCHANGED <<objects, acted>>
    /\ UNCHANGED <<loc, exists, files>>
    /\ UNCHANGED <<args, batch, faults, bedrock, utils>>

\* Bucket.uploadFiles up to the call of process_map; the caller makes the
\* call once and then once more with the same arguments
uploadFiles(lp, sp) ==
    /\ mode = "upload"
    /\ \/ status = "idle"
       \/ Finished /\ round = 1 /\ lp = localpaths /\ sp = s3paths
    /\ localpaths' = lp
    /\ s3paths' = sp
    /\ prev' = ret
    /\ StartBatch(zip(lp, sp))
    /\ UNCHANGED <<mode, auto_empty, overrides>>
    /\ UNCHANGED <<world, faults, bedrock, utils>>

\* print(f'... {sum(uploaded)} files were uploaded ...'), and the same
\* for sum(downloaded)
transferred_count == Sum(out)

-----------------------------------------------------------------------------
(* S3.py: _downloadFromBucket, Bucket.downloadFiles                        *)

\* the download made whether or not the local file exists
downloadProbeAlways(i) ==
    /\ Worker(i) /\ mode = "download" /\ pc[i] = "start"
    /\ Goto(i, "transfer")
    /\ UNCHANGED <<err, acted, loc>>
    /\ UNCHANGED <<args, batch, world, faults, bedrock, utils>>

\* if not os.path.exists(localpath): ... else: return 0
downloadProbe(i) ==
    /\ Worker(i) /\ mode = "download" /\ pc[i] = "start"
    /\ IF items[i][1] \in files
         THEN Return(i, 0)
         ELSE Goto(i, "transfer")
    /\ UNCHANGED <<err, acted, loc>>
    /\ UNCHANGED <<args, batch, world, faults, bedrock, utils>>

\* s3client.download_file(bucket_name, s3path, localpath); return 1.
\* download_file raises when the key is not in the bucket.
downloadTransfer(i) ==
    /\ Worker(i) /\ mode = "download" /\ pc[i] = "transfer"
    /\ LET localpath == items[i][1]
           s3path == items[i][2] IN
         IF s3path \in objects[bucket_name]
           THEN /\ files' = files \cup {localpath}
                /\ acted' = [acted EXCEPT ![i] = @ + 1]
                /\ Return(i, 1) /\ err' = err
           ELSE /\ Raise(i, "404")
                /\ UNCHANGED <<files, acted>>
    /\ UNCHANGED <<loc, exists, objects>>
    /\ UNCHANGED <<args, batch, faults, bedrock, utils>>

\* Bucket.downloadFiles up to the call of process_map; the caller makes
\* the call once and then once more with the same arguments
downloadFiles(lp, sp) ==
    /\ mode = "download"
    /\ \/ status = "idle"
       \/ Finished /\ round = 1 /\ lp = localpaths /\ sp = s3paths
    /\ localpaths' = lp
    /\ s3paths' = sp
    /\ prev' = ret
    /\ StartBatch(zip(lp, sp))
    /\ UNCHANGED <<mode, auto_empty, overrides>>
    /\ UNCHANGED <<world, faults, bedrock, utils>>

-----------------------------------------------------------------------------
(* S3.py: _deleteFromBucket, Bucket.deleteFiles                            *)

\* obj2delete['Objects']: the keys named in the delete_objects request
obj2delete(paths) == [k \in 1..Len(paths) |-> formatXML(paths[k])]

\* a requested key is refused when it is stored and locked; every other
\* requested key is reported deleted, stored or not
Refused(key, stored) == key \in locked /\ key \in stored

\* response['Errors'] and response['Deleted'] of delete_objects
response_errors(request, stored) ==
    SelectSeq(request, LAMBDA key : Refused(key, stored))

response_deleted(request, stored) ==
    SelectSeq(request, LAMBDA key : ~Refused(key, stored))

\* what the bucket stores after the request
AfterDelete(request, stored) ==
    stored \ {key \in Elems(request) : ~Refused(key, stored)}

\* return n_deleted, n_errors
deleteFromBucket(paths, stored) ==
    <<Len(response_deleted(obj2delete(paths), stored)),
      Len(response_errors(obj2delete(paths), stored))>>

\* _deleteFromBucket as the per-item function of deleteFiles
deleteFilesChunk(i) ==
    /\ Worker(i) /\ mode = "deleteFiles" /\ pc[i] = "start"
    /\ objects' = [objects EXCEPT ![bucket_name] = AfterDelete(obj2delete(items[i]), @)]
    /\ acted' = [acted EXCEPT ![i] = @ + 1]
    /\ Return(i, deleteFromBucket(items[i], objects[bucket_name]))
    /\ UNCHANGED <<err, loc, exists, files>>
    /\ UNCHANGED <<args, batch, faults, bedrock, utils>>

\* Bucket.deleteFiles up to the call of process_map: chunks of at most
\* 1000 keys (BatchLimit in the model)
deleteFiles(sp) ==
    /\ mode = "deleteFiles" /\ status = "idle"
    /\ s3paths' = sp
    /\ StartBatch(splitList(sp, BatchLimit))
    /\ prev' = prev
    /\ UNCHANGED <<mode, localpaths, auto_empty, overrides>>
    /\ UNCHANGED <<world, faults, bedrock, utils>>

\* n_deleted and n_errors printed by deleteFiles
files_deleted == Sum([i \in 1..Len(out) |-> out[i][1]])
files_errors == Sum([i \in 1..Len(out) |-> out[i][2]])

-----------------------------------------------------------------------------
(* S3.py: deleteBucket, deleteBuckets                                      *)

KeyIndex(key) == CHOOSE n \in 1..Len(KeyOrder) : KeyOrder[n] = key

\* the keys list_objects_v2 has still to list after position cursor
Listing(stored, cursor) ==
    SelectSeq(KeyOrder, LAMBDA key : key \in stored /\ KeyIndex(key) > cursor)

\* if auto_empty: response = s3_client.list_objects_v2(...);
\* if 'Contents' in response.keys()
deleteBucketList(i) ==
    /\ Worker(i) /\ mode = "deleteBuckets" /\ pc[i] = "start" /\ auto_empty
    /\ IF ~exists[items[i]]
         THEN Raise(i, "NoSuchBucket")
         ELSE /\ Goto(i, IF objects[items[i]] # {} THEN "paginate" ELSE "delete")
              /\ err' = err
    /\ UNCHANGED <<acted, loc>>
    /\ UNCHANGED <<args, batch, world, faults, bedrock, utils>>

\* the listing read without a paginator: the first page only
deleteBucketPageFirstOnly(i) ==
    /\ Worker(i) /\ mode = "deleteBuckets" /\ pc[i] = "paginate"
    /\ LET rest == Listing(objects[items[i]], loc[i].cursor)
           paths == SubSeq(rest, 1, Min(BatchLimit, Len(rest))) IN
         IF ~exists[items[i]]
           THEN Raise(i, "NoSuchBucket") /\ loc' = loc
           ELSE IF paths = <<>>
                  THEN Raise(i, "KeyError") /\ loc' = loc
                  ELSE /\ loc' = [loc EXCEPT ![i].page = paths,
                                             ![i].cursor = KeyIndex(paths[Len(paths)]),
                                             ![i].truncated = FALSE]
                       /\ Goto(i, "deletePage") /\ err' = err
    /\ UNCHANGED acted
    /\ UNCHANGED <<args, batch, world, faults, bedrock, utils>>

\* for page in s3_paginator.paginate(...): paths = [file['Key'] for file
\* in page['Contents']]; a page without 'Contents' is a KeyError
deleteBucketPage(i) ==
    /\ Worker(i) /\ mode = "deleteBuckets" /\ pc[i] = "paginate"
    /\ LET rest == Listing(objects[items[i]], loc[i].cursor)
           paths == SubSeq(rest, 1, Min(BatchLimit, Len(rest))) IN
         IF ~exists[items[i]]
           THEN Raise(i, "NoSuchBucket") /\ loc' = loc
           ELSE IF paths = <<>>
                  THEN Raise(i, "KeyError") /\ loc' = loc
                  ELSE /\ loc' = [loc EXCEPT ![i].page = paths,
                                             ![i].cursor = KeyIndex(paths[Len(paths)]),
                                             ![i].truncated = Len(rest) > BatchLimit]
                       /\ Goto(i, "deletePage") /\ err' = err
    /\ UNCHANGED acted
    /\ UNCHANGED <<args, batch, world, faults, bedrock, utils>>

\* delete_response = _deleteFromBucket(paths= paths, ...);
\* n_errors += delete_response[1]; n_deleted += delete_response[0]
deleteBucketDeletePage(i) ==
    /\ Worker(i) /\ mode = "deleteBuckets" /\ pc[i] = "deletePage"
    /\ LET b == items[i]
           counts == deleteFromBucket(loc[i].page, objects[b]) IN
         IF ~exists[b]
           THEN Raise(i, "NoSuchBucket") /\ UNCHANGED <<objects, acted, loc>>
           ELSE /\ objects' = [objects EXCEPT ![b] = AfterDelete(obj2delete(loc[i].page), @)]
                /\ acted' = [acted EXCEPT ![i] = @ + 1]
                /\ loc' = [loc EXCEPT ![i].n_deleted = @ + counts[1],
                                      ![i].n_errors = @ + counts[2],
                                      ![i].page = <<>>]
                /\ Goto(i, IF loc[i].truncated THEN "paginate" ELSE "delete")
                /\ err' = err
    /\ UNCHANGED <<exists, files>>
    /\ UNCHANGED <<args, batch, faults, bedrock, utils>>

\* delete_bucket refused only for a bucket that does not exist
deleteBucketDeleteForced(i) ==
    /\ Worker(i) /\ mode = "deleteBuckets"
    /\ pc[i] = "delete" \/ (pc[i] = "start" /\ ~auto_empty)
    /\ LET b == items[i] IN
         IF ~exists[b]
           THEN Raise(i, "NoSuchBucket") /\ UNCHANGED <<exists, objects>>
           ELSE /\ exists' = [exists EXCEPT ![b] = FALSE]
                /\ objects' = [objects EXCEPT ![b] = {}]
                /\ Return(i, "None") /\ err' = err
    /\ UNCHANGED <<acted, loc, files>>
    /\ UNCHANGED <<args, batch, faults, bedrock, utils>>

\* try: s3_client.delete_bucket(Bucket= bucket_name)
\* except ClientError: 'BucketNotEmpty' is printed, anything else raised
deleteBucketDelete(i) ==
    /\ Worker(i) /\ mode = "deleteBuckets"
    /\ pc[i] = "delete" \/ (pc[i] = "start" /\ ~auto_empty)
    /\ LET b == items[i] IN
         IF ~exists[b]
           THEN Raise(i, "NoSuchBucket") /\ exists' = exists
           ELSE IF objects[b] # {}
                  THEN /\ err' = [err EXCEPT ![i] = "BucketNotEmpty"]
                       /\ Return(i, "None") /\ exists' = exists
                  ELSE /\ exists' = [exists EXCEPT ![b] = FALSE]
                       /\ Return(i, "None") /\ err' = err
    /\ UNCHANGED <<acted, loc, objects, files>>
    /\ UNCHANGED <<args, batch, faults, bedrock, utils>>

\* deleteBuckets up to the call of process_map
deleteBuckets(bucket_names, ae) ==
    /\ mode = "deleteBuckets" /\ status = "idle"
    /\ auto_empty' = ae
    /\ StartBatch(bucket_names)
    /\ prev' = prev
    /\ UNCHANGED <<mode, localpaths, s3paths, overrides>>
    /\ UNCHANGED <<world, faults, bedrock, utils>>

-----------------------------------------------------------------------------
(* Bedrock.py: _bedrock_call, BedrockModel                                 *)

Text(n) == [k \in 1..n |-> "t"]
Prompts == {Text(5), Text(12)}
Completions == {Text(0), Text(7)}

\* self.default_call_conf as __init__ builds it, model_id left at its default
InitialCallConf ==
    [model_id |-> "anthropic.claude-v2:1",
     max_tokens_to_sample |-> 4000,
     temperature |-> 0,
     top_p |-> "0.9",
     accept |-> "application/json",
     content_type |-> "application/json"]

\* the call_conf arguments callers pass
NoOverride == [k \in {} |-> 0]
CallConfs == {NoOverride, [temperature |-> 1], [max_tokens_to_sample |-> 100]}

\* dict.update: d with the entries of o written over it
update(d, o) ==
    [k \in (DOMAIN d) \cup (DOMAIN o) |-> IF k \in DOMAIN o THEN o[k] ELSE d[k]]

\* the quotient rounded to the nearest integer
approx_n_tokensRounded(text) == (Len(text) + 3) \div 6

\* int(len(text) / 6): the quotient of a length by 6, fraction dropped
approx_n_tokens(text) == Len(text) \div 6

\* return response_body, (int(approx_n_tokens_in), int(approx_n_tokens_out))
bedrock_call(prompt, completion) ==
    <<[completion |-> completion],
      <<approx_n_tokens(prompt), approx_n_tokens(completion)>>>>

\* self.call_conf = self.default_call_conf binds both attributes to the one
\* dict; self.call_conf.update(call_conf) then writes that dict
RestoreAndUpdate(conf_arg) ==
    /\ call_conf' = "default_call_conf"
    /\ default_call_conf' = update(default_call_conf, conf_arg)
    /\ sent_conf' = default_call_conf'
    /\ overrides' = conf_arg

\* _bedrock_call as the per-item function of invoke; the model answers
\* with any completion
invokeCall(i) ==
    /\ Worker(i) /\ mode = "invoke" /\ pc[i] = "start"
    /\ \E completion \in Completions : Return(i, bedrock_call(items[i], completion))
    /\ UNCHANGED <<err, acted, loc>>
    /\ UNCHANGED <<args, batch, world, faults, bedrock, utils>>

\* BedrockModel.invoke up to the call of process_map
invoke(prompts, conf_arg) ==
    /\ mode = "invoke"
    /\ status = "idle" \/ (Finished /\ round < MaxCalls)
    /\ RestoreAndUpdate(conf_arg)
    /\ StartBatch(prompts)
    /\ prev' = prev
    /\ UNCHANGED <<mode, localpaths, s3paths, auto_empty>>
    /\ UNCHANGED <<world, faults, utils>>

\* BedrockModel.single_invoke: one synchronous _bedrock_call; the tuple it
\* returns is held as the one entry of out
single_invoke(prompt, conf_arg) ==
    /\ mode = "invoke"
    /\ status = "idle" \/ (Finished /\ round < MaxCalls)
    /\ RestoreAndUpdate(conf_arg)
    /\ \E completion \in Completions :
         /\ ret' = << <<bedrock_call(prompt, completion)>> >>
         /\ out' = <<bedrock_call(prompt, completion)>>
    /\ items' = <<prompt>>
    /\ status' = "returned"
    /\ pc' = <<"done">>
    /\ err' = <<"none">>
    /\ acted' = <<0>>
    /\ loc' = <<NoLocals>>
    /\ order' = <<1>>
    /\ prev' = prev
    /\ round' = round + 1
    /\ UNCHANGED <<mode, localpaths, s3paths, auto_empty, objects0>>
    /\ UNCHANGED <<world, faults, utils>>

-----------------------------------------------------------------------------
(* Rekognition.py: callRekognition, Rekognition.predict                    *)

\* rekognition_client.detect_text(Image= {'S3Object': ...}); the response
\* is a function of the stored image, a missing image is an error
callRekognition(i) ==
    /\ Worker(i) /\ mode = "predict" /\ pc[i] = "start"
    /\ IF items[i] \in objects[bucket_name]
         THEN Return(i, [TextDetections |-> <<items[i]>>]) /\ err' = err
         ELSE Raise(i, "InvalidS3ObjectException")
    /\ UNCHANGED <<acted, loc>>
    /\ UNCHANGED <<args, batch, world, faults, bedrock, utils>>

\* Rekognition.predict up to the call of process_map
predict(sp) ==
    /\ mode = "predict" /\ status = "idle"
    /\ s3paths' = sp
    /\ StartBatch(sp)
    /\ prev' = prev
    /\ UNCHANGED <<mode, localpaths, auto_empty, overrides>>
    /\ UNCHANGED <<world, faults, bedrock, utils>>

-----------------------------------------------------------------------------
(* Initial states and specifications.                                      *)

\* the state before the first call of the entry point m, bucket b1 storing
\* the keys stored
InitMode(m, stored) ==
    /\ mode = m
    /\ localpaths = <<>> /\ s3paths = <<>> /\ auto_empty = FALSE
    /\ overrides = NoOverride
    /\ round = 0 /\ items = <<>> /\ status = "idle" /\ out = <<>> /\ prev = <<>>
    /\ pc = <<>> /\ ret = <<>> /\ err = <<>> /\ acted = <<>> /\ order = <<>>
    /\ loc = <<>>
    /\ exists = [b \in BucketNames |-> TRUE]
    /\ objects \in {[b \in BucketNames |-> IF b = bucket_name THEN o ELSE o2] :
                      o \in stored, o2 \in IF m = "deleteBuckets" THEN {{}, {KeyA}} ELSE {{}}}
    /\ objects0 = objects
    /\ default_call_conf = InitialCallConf
    /\ call_conf = "unset"
    /\ sent_conf = NoOverride

NoUtils ==
    /\ filename = <<>> /\ formatted = <<>>
    /\ some_list = <<>> /\ lenght = 1 /\ chunks = <<>>

\* uploads: any bucket content, one local file possibly missing, one key
\* possibly denied; downloads: any local files, one key possibly missing
InitTransfer ==
    /\ \/ /\ InitMode("upload", SUBSET TransferKeys)
          /\ files \in {Locals, {LocalX}}
          /\ denied \in {{}, {KeyB}}
       \/ /\ InitMode("download", {TransferKeys, {KeyA}})
          /\ files \in SUBSET Locals
          /\ denied = {}
    /\ locked = {}
    /\ NoUtils

\* deletions: any bucket content, one key possibly locked
InitDelete ==
    /\ \E m \in {"deleteFiles", "deleteBuckets"} : InitMode(m, SUBSET StoredKeys)
    /\ files = {} /\ denied = {}
    /\ locked \in {{}, {KeyB}}
    /\ NoUtils

InitBedrock ==
    /\ InitMode("invoke", {{}})
    /\ files = {} /\ denied = {} /\ locked = {}
    /\ NoUtils

InitRekognition ==
    /\ InitMode("predict", SUBSET TransferKeys)
    /\ files = {} /\ denied = {} /\ locked = {}
    /\ NoUtils

InitUtils ==
    /\ \E m \in {"formatXML", "splitList"} : InitMode(m, {{}})
    /\ files = {} /\ denied = {} /\ locked = {}
    /\ IF mode = "formatXML"
         THEN /\ filename \in SeqsUpTo(Alphabet, MaxNameLen)
              /\ some_list = <<>> /\ lenght = 1
         ELSE /\ filename = <<>>
              /\ some_list \in SeqsUpTo(TransferKeys, MaxListLen)
              /\ lenght \in 1..MaxChunk
    /\ formatted = <<>> /\ chunks = <<>>

NextTransfer ==
    \/ /\ mode = "upload" /\ status # "running"
       /\ \E lp \in SeqsUpTo(Locals, MaxItems), sp \in SeqsUpTo(TransferKeys, MaxItems) :
            uploadFiles(lp, sp)
    \/ /\ mode = "download" /\ status # "running"
       /\ \E lp \in SeqsUpTo(Locals, MaxItems), sp \in SeqsUpTo(TransferKeys, MaxItems) :
            downloadFiles(lp, sp)
    \/ \E i \in 1..Len(items) : uploadProbe(i)
    \/ \E i \in 1..Len(items) : uploadTransfer(i)
    \/ \E i \in 1..Len(items) : downloadProbe(i)
    \/ \E i \in 1..Len(items) : downloadTransfer(i)
    \/ ProcessMapReturn
    \/ ProcessMapRaise

NextDelete ==
    \/ /\ mode = "deleteFiles" /\ status = "idle"
       /\ \E sp \in SeqsUpTo(DeleteKeys, MaxListLen) : deleteFiles(sp)
    \/ /\ mode = "deleteBuckets" /\ status = "idle"
       /\ \E names \in SeqsUpTo(BucketNames, MaxItems), ae \in BOOLEAN :
            deleteBuckets(names, ae)
    \/ \E i \in 1..Len(items) : deleteFilesChunk(i)
    \/ \E i \in 1..Len(items) : deleteBucketList(i)
    \/ \E i \in 1..Len(items) : deleteBucketPage(i)
    \/ \E i \in 1..Len(items) : deleteBucketDeletePage(i)
    \/ \E i \in 1..Len(items) : deleteBucketDelete(i)
    \/ ProcessMapReturn
    \/ ProcessMapRaise

NextBedrock ==
    \/ /\ mode = "invoke" /\ status # "running"
       /\ \E prompts \in SeqsUpTo(Prompts, MaxItems), conf_arg \in CallConfs :
            invoke(prompts, conf_arg)
    \/ /\ mode = "invoke" /\ status # "running"
       /\ \E prompt \in Prompts, conf_arg \in CallConfs :
            single_invoke(prompt, conf_arg)
    \/ \E i \in 1..Len(items) : invokeCall(i)
    \/ ProcessMapReturn

NextRekognition ==
    \/ /\ mode = "predict" /\ status = "idle"
       /\ \E sp \in SeqsUpTo(TransferKeys, MaxItems) : predict(sp)
    \/ \E i \in 1..Len(items) : callRekognition(i)
    \/ ProcessMapReturn
    \/ ProcessMapRaise

NextUtils ==
    \/ ApplyFormatXML
    \/ ApplySplitList

\* uploadFiles and downloadFiles
SpecTransfer == InitTransfer /\ [][NextTransfer]_vars
\* deleteFiles and deleteBuckets
SpecDelete == InitDelete /\ [][NextDelete]_vars
\* BedrockModel
SpecBedrock == InitBedrock /\ [][NextBedrock]_vars
\* formatXML and splitList
SpecUtils == InitUtils /\ [][NextUtils]_vars

\* uploadFiles and deleteBuckets
InitS3 == InitTransfer \/ InitDelete
NextS3 == NextTransfer \/ NextDelete
SpecS3 == InitS3 /\ [][NextS3]_vars

\* every batch entry point
Init == InitTransfer \/ InitDelete \/ InitBedrock \/ InitRekognition
Next == NextTransfer \/ NextDelete \/ NextBedrock \/ NextRekognition
Spec == Init /\ [][Next]_vars

-----------------------------------------------------------------------------
(* Properties.                                                             *)

\* n is the integer part of len / 6
IsFloorOfSixth(n, len) == 6 * n <= len /\ len < 6 * (n + 1)

\* the outcome v is an outcome of the per-item function on item i
OutcomeOfItem(i, v) ==
    CASE mode \in {"upload", "download"} -> v \in {0, 1} /\ v = acted[i]
      [] mode = "deleteFiles" -> v[1] + v[2] = Len(items[i]) /\ acted[i] = 1
      [] mode = "deleteBuckets" -> v = "None"
      [] mode = "invoke" -> IsFloorOfSixth(v[2][1], Len(items[i]))
      [] mode = "predict" -> v.TextDetections = <<items[i]>>

\* C1: a batch run that returns yields one outcome per work item, and
\* outcome i is the outcome of the per-item function on item i, in every
\* completion order of the workers.
C1_ResultsFollowItems ==
    status = "returned" =>
        /\ Len(out) = Len(items)
        /\ \A i \in 1..Len(items) :
             /\ pc[i] = "done"
             /\ out[i] = ret[i][1]
             /\ OutcomeOfItem(i, out[i])

\* a batch whose second item completed first and whose outcomes differ
C1_Witness ==
    /\ status = "returned"
    /\ Len(items) = 2
    /\ order = <<2, 1>>
    /\ out[1] # out[2]

\* C2: in the second of two successive uploadFiles (downloadFiles) calls
\* with the same arguments, an item that returned 1 in the first call makes
\* no transfer and returns 0.
C2_SecondCallSkips ==
    (mode \in {"upload", "download"} /\ round = 2) =>
        \A i \in 1..Len(items) :
            prev[i] = <<1>> =>
                /\ pc[i] \in {"start", "done"}
                /\ acted[i] = 0
                /\ pc[i] = "done" => ret[i] = <<0>>
                /\ status = "returned" => out[i] = 0

\* the second upload call returned, having skipped an item the first call
\* uploaded
C2_Witness ==
    /\ mode = "upload" /\ round = 2 /\ status = "returned"
    /\ \E i \in 1..Len(items) : prev[i] = <<1>> /\ out[i] = 0

\* C3: splitList yields ceil(K / B) chunks, each of 1 to B keys, whose
\* concatenation in order is the list it was given.
C3_Chunking ==
    chunks # <<>> =>
        LET c == chunks[1]
            K == Len(some_list)
            B == lenght
        IN  /\ Len(c) * B >= K
            /\ (Len(c) - 1) * B < K
            /\ \A k \in 1..Len(c) : Len(c[k]) >= 1 /\ Len(c[k]) <= B
            /\ Concat(c) = some_list

\* a list split in two chunks, the second shorter than the bound
C3_Witness ==
    /\ chunks # <<>>
    /\ Len(chunks[1]) = 2
    /\ Len(chunks[1][1]) = lenght
    /\ Len(chunks[1][2]) < lenght

\* C4: deleteBucket without auto_empty on a bucket that holds objects
\* leaves the bucket and its objects as they were, sends no delete_objects
\* request, reports BucketNotEmpty and returns; no exception of the batch
\* comes from such a bucket.
C4_NonEmptyUntouched ==
    (mode = "deleteBuckets" /\ status # "idle" /\ ~auto_empty) =>
        /\ \A b \in BucketNames :
             objects0[b] # {} => exists[b] /\ objects[b] = objects0[b]
        /\ \A i \in 1..Len(items) :
             /\ acted[i] = 0
             /\ objects0[items[i]] # {} =>
                  /\ pc[i] \in {"start", "done"}
                  /\ pc[i] = "done" =>
                       err[i] = "BucketNotEmpty" /\ ret[i] = <<"None">>
        /\ status = "raised" =>
             \E i \in 1..Len(items) :
                 pc[i] = "raised" /\ objects0[items[i]] = {}

\* a batch over a bucket with objects and an empty one returned: the first
\* was reported and kept, the second deleted
C4_Witness ==
    /\ mode = "deleteBuckets" /\ status = "returned" /\ ~auto_empty
    /\ Len(items) = 2
    /\ err[1] = "BucketNotEmpty"
    /\ objects[items[1]] # {} /\ objects[items[1]] = objects0[items[1]]
    /\ exists[items[1]]
    /\ ~exists[items[2]]

\* item i is the only item of the batch naming its bucket
OnlyWorkerOf(i) == \A j \in 1..Len(items) : j # i => items[j] # items[i]

\* number of pages of at most BatchLimit keys that hold n keys
PagesFor(n) == (n + BatchLimit - 1) \div BatchLimit

C6_UnexpectedErrorsPropagate ==
    /\ status = "raised" => out = <<>>
    /\ status = "returned" => \A i \in 1..Len(items) : pc[i] = "done"
    /\ mode = "upload" =>
         \A i \in 1..Len(items) :
             /\ err[i] = "AccessDenied" =>
                  pc[i] = "raised" /\ acted[i] = 0 /\ ret[i] = <<>>
             /\ err[i] = "NoSuchKey" =>
                  /\ pc[i] \in {"transfer", "done"}
                  /\ pc[i] = "done" => ret[i] = <<1>> /\ acted[i] = 1
             /\ (pc[i] = "start" /\ items[i][2] \in denied) => acted[i] = 0
    /\ mode = "deleteBuckets" =>
         \A i \in 1..Len(items) :
             /\ err[i] = "NoSuchBucket" => pc[i] = "raised" /\ ret[i] = <<>>
             /\ err[i] = "BucketNotEmpty" => pc[i] = "done"

\* an upload batch raised on a denied key after another item had uploaded
C6_Witness ==
    /\ mode = "upload" /\ status = "raised" /\ out = <<>>
    /\ \E i, j \in 1..Len(items) :
         /\ err[i] = "AccessDenied" /\ pc[i] = "raised"
         /\ err[j] = "NoSuchKey" /\ ret[j] = <<1>>

\* C7: _bedrock_call reports (floor(L/6), floor(M/6)) for a prompt of L
\* and a completion of M characters, and invoke returns these pairs in
\* prompt order.
C7_TokenEstimate ==
    mode = "invoke" =>
        /\ \A i \in 1..Len(items) :
             pc[i] = "done" =>
                 /\ IsFloorOfSixth(ret[i][1][2][1], Len(items[i]))
                 /\ IsFloorOfSixth(ret[i][1][2][2], Len(ret[i][1][1].completion))
        /\ status = "returned" =>
             \A i \in 1..Len(items) :
                 /\ IsFloorOfSixth(out[i][2][1], Len(items[i]))
                 /\ IsFloorOfSixth(out[i][2][2], Len(out[i][1].completion))

\* invoke returned for a 12 and a 5 character prompt, the second answered
\* first
C7_Witness ==
    /\ mode = "invoke" /\ status = "returned"
    /\ Len(items) = 2 /\ order = <<2, 1>>
    /\ out[1][2] = <<2, 1>>
    /\ out[2][2] = <<0, 0>>

\* C8: an upload whose probe met NoSuchKey is made and returns 1 whatever
\* became of the key since the probe, and the count uploadFiles prints is
\* the number of uploads made.
C8_UploadAfterProbe ==
    mode = "upload" =>
        /\ \A i \in 1..Len(items) :
             (pc[i] = "done" /\ err[i] = "NoSuchKey") =>
                 ret[i] = <<1>> /\ acted[i] = 1
        /\ status = "returned" => transferred_count = Sum(acted)

\* two items of one batch uploaded the same absent key: two uploads
\* counted, one key created
C8_Witness ==
    /\ mode = "upload" /\ round = 1 /\ status = "returned"
    /\ Len(items) = 2
    /\ items[1][2] = items[2][2]
    /\ out = <<1, 1>>
    /\ transferred_count = 2
    /\ Cardinality(objects[bucket_name] \ objects0[bucket_name]) = 1

\* C9 as claimed: an invocation leaves default_call_conf as the
\* constructor built it, and the configuration it uses is the constructor's
\* overlaid with its own call_conf only.
C9_DefaultsRestored ==
    (mode = "invoke" /\ status # "idle") =>
        /\ default_call_conf = InitialCallConf
        /\ sent_conf = update(InitialCallConf, overrides)

\* the entity of a character, or the character itself
Entity(c) ==
    IF \E k \in 1..Len(XML_translator) : XML_translator[k][1] = c
      THEN XML_translator[CHOOSE k \in 1..Len(XML_translator) :
                              XML_translator[k][1] = c][2]
      ELSE <<c>>

\* every character of the name escaped once
EscapeEach(name) == Concat([k \in 1..Len(name) |-> Entity(name[k])])

\* C10 as claimed: formatXML returns the concatenation of the entity of
\* each character of the key, each character escaped once.
C10_EscapedOnce ==
    formatted # <<>> => formatted[1] = EscapeEach(filename)

====
